---- MODULE Spec2Model ----
(***************************************************************************)
(* Model of app.py: the database registry and schema catalog built at      *)
(* import time, SchemaInfoTool.run, SQLExecutionTool.run (statement by     *)
(* statement), the four-task crew, and the "Pick Random Question" handler  *)
(* with its vanilla baseline block.                                        *)
(***************************************************************************)
EXTENDS Integers, Sequences, FiniteSets, TLC

(* ------------------------------ bounds --------------------------------- *)

\* number of times the "Pick Random Question" button is pressed
MaxRuns == 2

(* --------------------------- python helpers ---------------------------- *)

\* the empty dict {}
EmptyDict == [k \in {} |-> TRUE]

\* Python's None
NoneVal == [none |-> TRUE]

\* dict.get(key, default)
Get(d, key, default) == IF key \in DOMAIN d THEN d[key] ELSE default

(* ----------------- setup: reading databases and schema ----------------- *)

BASE_DIR == "./data/database/"

\* the directories os.listdir(BASE_DIR) returns
Dirs == {"film_db", "geo_db"}

\* the db_id values a dev.json sample can carry
DbIds == Dirs \cup {"missing_db"}

\* which of <db_id>.sqlite and <db_id>.db exist in each directory
Listings == [Dirs -> SUBSET {"sqlite", "db"}]

\* the loop that fills db_map: .sqlite is preferred over .db, a directory
\* with neither file gets no entry
BuildDbMap(listing) ==
    LET present == {d \in Dirs : listing[d] # {}}
    IN  [d \in present |->
            IF "sqlite" \in listing[d]
            THEN BASE_DIR \o d \o "/" \o d \o ".sqlite"
            ELSE BASE_DIR \o d \o "/" \o d \o ".db"]

\* json.load of ./data/schema_info.json
SchemaCatalog ==
    "film_db" :> [films |-> <<"id", "title", "year">>]

\* json.load of ./data/en_data/dev.json; the second sample has no
\* reasoning_type
dev_data ==
    { [question |-> "Which film was released in 2016?", db_id |-> d,
       reasoning_type |-> "A"] : d \in DbIds }
    \cup
    { [question |-> "How many films are there?", db_id |-> "film_db"] }

(* --------------------------- the SQL engine ---------------------------- *)

Q_TITLE == "SELECT title FROM films WHERE year = 2016"
Q_MISSING == "SELECT * FROM nonexistent_table"
Q_EMPTY == ""

\* what cursor.execute(sql_query) does on the database stored at db_path:
\* raises (ok = FALSE, with the engine's message), or leaves a cursor with
\* a description (None for a statement that returns no rows) and its rows
Engine(db_path, sql_query) ==
    IF sql_query = Q_EMPTY
    THEN [ok |-> TRUE, hasDescription |-> FALSE, description |-> <<>>,
          rows |-> <<>>, msg |-> ""]
    ELSE IF sql_query = Q_TITLE /\ db_path \in
              {BASE_DIR \o "film_db/film_db.sqlite", BASE_DIR \o "film_db/film_db.db"}
    THEN [ok |-> TRUE, hasDescription |-> TRUE,
          description |-> << <<"title", "None">> >>,
          rows |-> << <<"Arrival">> >>, msg |-> ""]
    ELSE IF sql_query = Q_TITLE
    THEN [ok |-> FALSE, hasDescription |-> FALSE, description |-> <<>>,
          rows |-> <<>>, msg |-> "no such table: films"]
    ELSE [ok |-> FALSE, hasDescription |-> FALSE, description |-> <<>>,
          rows |-> <<>>, msg |-> "no such table: nonexistent_table"]

\* the cursor before execute
NoCursor ==
    [ok |-> FALSE, hasDescription |-> FALSE, description |-> <<>>,
     rows |-> <<>>, msg |-> ""]

(* ------------------------------- state --------------------------------- *)

VARIABLES
    db_map,          \* db_id -> path of its database file
    schema_info,     \* db_id -> schema description
    runs,            \* button presses so far
    pc,              \* position of the handler script
    sample,          \* the sample random.choice picked
    question, selected_db, reasoning_type,
    taskIdx,         \* index in crew.tasks of the task kickoff runs next
    taskIn,          \* task -> the upstream output it was given
    taskOut,         \* task -> its output
    started,         \* tasks started by this kickoff, in order
    finished,        \* tasks finished by this kickoff, in order
    result,          \* what crew.kickoff returned
    exception,       \* the exception that ended the script, if any
    shown,           \* the sections the script wrote to the page
    vanilla_sql_res, vanilla_exec_res,
    runPc,           \* position inside SQLExecutionTool.run
    caller,          \* who called SQLExecutionTool.run
    sql_query, db_id,        \* its arguments
    cursor, results, columns, \* its locals
    caught,          \* the exception its except clause received, if any
    connected,       \* this call opened a connection
    executed,        \* this call passed sql_query to cursor.execute
    openConns,       \* connections opened and not yet closed
    retval,          \* the value the call returned
    stdout           \* lines printed so far

handlerVars ==
    <<runs, pc, sample, question, selected_db, reasoning_type, taskIdx, taskIn,
      taskOut, started, finished, result, exception, shown, vanilla_sql_res,
      vanilla_exec_res>>

toolVars ==
    <<runPc, caller, sql_query, db_id, cursor, results, columns, caught,
      connected, executed, openConns, retval, stdout>>

vars == <<db_map, schema_info, handlerVars, toolVars>>

(* --------------------------- SchemaInfoTool ---------------------------- *)

\* SchemaInfoTool.run with the question and reasoning_type entries swapped
SchemaInfoTool_run_Swapped(q, db, rt) ==
    LET db_schema == Get(schema_info, db, EmptyDict)
    IN  [schema_info |-> db_schema, db_id |-> db, reasoning_type |-> q,
         question |-> rt]

\* SchemaInfoTool.run
SchemaInfoTool_run(q, db, rt) ==
    LET db_schema == Get(schema_info, db, EmptyDict)
    IN  [schema_info |-> db_schema, db_id |-> db, reasoning_type |-> rt,
         question |-> q]

(* -------------------------- SQLExecutionTool --------------------------- *)

\* an engine fault (I/O error, corrupt file) that can hit any call on the cursor
ENGINE_FAULT == "disk I/O error"

\* entering SQLExecutionTool.run(sql_query, db_id) on behalf of `who`
RunEnter(who, q, db) ==
    /\ runPc = "none"
    /\ runPc' = "check"
    /\ caller' = who
    /\ sql_query' = q
    /\ db_id' = db
    /\ cursor' = NoCursor
    /\ results' = <<>>
    /\ columns' = <<>>
    /\ caught' = NoneVal
    /\ connected' = FALSE
    /\ executed' = FALSE
    /\ retval' = NoneVal
    /\ UNCHANGED <<openConns, stdout>>

\* RunCheckDb with the connection opened before db_id is looked up
RunCheckDb_ConnectFirst ==
    /\ runPc = "check"
    /\ IF db_id \notin DOMAIN db_map
       THEN /\ openConns' = openConns + 1
            /\ connected' = TRUE
            /\ retval' = [error |-> "No database found for db_id=" \o db_id,
                          sql_query |-> sql_query, db_id |-> db_id]
            /\ runPc' = "returned"
       ELSE /\ runPc' = "connect"
            /\ UNCHANGED <<retval, openConns, connected>>
    /\ UNCHANGED <<caller, sql_query, db_id, cursor, results, columns, caught,
                   executed, stdout>>
    /\ UNCHANGED <<db_map, schema_info, handlerVars>>

\* if db_id not in db_map: return {"error": ...}
RunCheckDb ==
    /\ runPc = "check"
    /\ IF db_id \notin DOMAIN db_map
       THEN /\ retval' = [error |-> "No database found for db_id=" \o db_id,
                          sql_query |-> sql_query, db_id |-> db_id]
            /\ runPc' = "returned"
       ELSE /\ runPc' = "connect"
            /\ UNCHANGED retval
    /\ UNCHANGED <<caller, sql_query, db_id, cursor, results, columns, caught,
                   connected, executed, openConns, stdout>>
    /\ UNCHANGED <<db_map, schema_info, handlerVars>>

\* conn = sqlite3.connect(db_map[db_id]); cursor = conn.cursor();
\* results = []; columns = []
RunConnect ==
    /\ runPc = "connect"
    /\ db_id \in DOMAIN db_map
    /\ openConns' = openConns + 1
    /\ connected' = TRUE
    /\ results' = <<>>
    /\ columns' = <<>>
    /\ runPc' = "execute"
    /\ UNCHANGED <<caller, sql_query, db_id, cursor, caught, executed, retval,
                   stdout>>
    /\ UNCHANGED <<db_map, schema_info, handlerVars>>

\* RunExecute outside the try: a failing query ends the call, and the
\* script, with the engine's exception
RunExecute_Propagates ==
    /\ runPc = "execute"
    /\ executed' = TRUE
    /\ \E fault \in BOOLEAN :
         LET out == Engine(db_map[db_id], sql_query)
         IN  IF fault \/ ~out.ok
             THEN /\ caught' = [msg |-> IF fault THEN ENGINE_FAULT ELSE out.msg]
                  /\ runPc' = "none"
                  /\ pc' = "crashed"
                  /\ exception' = "sqlite3.Error"
                  /\ UNCHANGED cursor
             ELSE /\ cursor' = out
                  /\ runPc' = "fetchall"
                  /\ UNCHANGED <<caught, pc, exception>>
    /\ UNCHANGED <<caller, sql_query, db_id, results, columns, connected,
                   openConns, retval, stdout>>
    /\ UNCHANGED <<runs, sample, question, selected_db, reasoning_type, taskIdx,
                   taskIn, taskOut, started, finished, result, shown,
                   vanilla_sql_res, vanilla_exec_res>>
    /\ UNCHANGED <<db_map, schema_info>>

\* try: cursor.execute(sql_query)
RunExecute ==
    /\ runPc = "execute"
    /\ executed' = TRUE
    /\ \E fault \in BOOLEAN :
         LET out == Engine(db_map[db_id], sql_query)
         IN  IF fault \/ ~out.ok
             THEN /\ caught' = [msg |-> IF fault THEN ENGINE_FAULT ELSE out.msg]
                  /\ runPc' = "except"
                  /\ UNCHANGED cursor
             ELSE /\ cursor' = out
                  /\ runPc' = "fetchall"
                  /\ UNCHANGED caught
    /\ UNCHANGED <<caller, sql_query, db_id, results, columns, connected,
                   openConns, retval, stdout>>
    /\ UNCHANGED <<db_map, schema_info, handlerVars>>

\* results = cursor.fetchall()
RunFetchall ==
    /\ runPc = "fetchall"
    /\ \E fault \in BOOLEAN :
         IF fault
         THEN /\ caught' = [msg |-> ENGINE_FAULT]
              /\ runPc' = "except"
              /\ UNCHANGED results
         ELSE /\ results' = cursor.rows
              /\ runPc' = "description"
              /\ UNCHANGED caught
    /\ UNCHANGED <<caller, sql_query, db_id, cursor, columns, connected,
                   executed, openConns, retval, stdout>>
    /\ UNCHANGED <<db_map, schema_info, handlerVars>>

\* columns = [desc[0] for desc in cursor.description] if cursor.description else []
RunDescription ==
    /\ runPc = "description"
    /\ \E fault \in BOOLEAN :
         IF fault
         THEN /\ caught' = [msg |-> ENGINE_FAULT]
              /\ runPc' = "except"
              /\ UNCHANGED columns
         ELSE /\ columns' = IF cursor.hasDescription
                            THEN [i \in 1..Len(cursor.description) |->
                                     cursor.description[i][1]]
                            ELSE <<>>
              /\ runPc' = "finally"
              /\ UNCHANGED caught
    /\ UNCHANGED <<caller, sql_query, db_id, cursor, results, connected,
                   executed, openConns, retval, stdout>>
    /\ UNCHANGED <<db_map, schema_info, handlerVars>>

\* except Exception as e: print(f"Error executing query: {e}")
RunExcept ==
    /\ runPc = "except"
    /\ stdout' = Append(stdout, "Error executing query: " \o caught.msg)
    /\ runPc' = "finally"
    /\ UNCHANGED <<caller, sql_query, db_id, cursor, results, columns, caught,
                   connected, executed, openConns, retval>>
    /\ UNCHANGED <<db_map, schema_info, handlerVars>>

\* RunFinally with the close on the success path only
RunFinally_CloseOnSuccess ==
    /\ runPc = "finally"
    /\ openConns' = IF caught = NoneVal THEN openConns - 1 ELSE openConns
    /\ runPc' = "return"
    /\ UNCHANGED <<caller, sql_query, db_id, cursor, results, columns, caught,
                   connected, executed, retval, stdout>>
    /\ UNCHANGED <<db_map, schema_info, handlerVars>>

\* finally: conn.close()
RunFinally ==
    /\ runPc = "finally"
    /\ openConns' = openConns - 1
    /\ runPc' = "return"
    /\ UNCHANGED <<caller, sql_query, db_id, cursor, results, columns, caught,
                   connected, executed, retval, stdout>>
    /\ UNCHANGED <<db_map, schema_info, handlerVars>>

\* return {"columns": columns, "rows": results, "db_id": db_id, "sql_query": sql_query}
RunReturn ==
    /\ runPc = "return"
    /\ retval' = [columns |-> columns, rows |-> results, db_id |-> db_id,
                  sql_query |-> sql_query]
    /\ runPc' = "returned"
    /\ UNCHANGED <<caller, sql_query, db_id, cursor, results, columns, caught,
                   connected, executed, openConns, stdout>>
    /\ UNCHANGED <<db_map, schema_info, handlerVars>>

(* ------------------------- agents, tasks, crew ------------------------- *)

\* the tools= argument of each Agent(...); sql_generation_agent is built
\* without one
knowledge_agent_tools == <<"schema_info_tool">>
sql_generation_agent_tools == <<>>
sql_execution_agent_tools == <<"sql_execution_tool">>

\* crew_tasks with SQL generation listed before schema linking
crew_tasks_Swapped ==
    <<"knowledge_task", "sql_generation_task", "schema_linking_task",
      "sql_execution_task">>

\* Crew(tasks=[...])
crew_tasks ==
    <<"knowledge_task", "schema_linking_task", "sql_generation_task",
      "sql_execution_task">>

TaskNames == {crew_tasks[i] : i \in 1..Len(crew_tasks)}

\* the Task a task's parameters= refer to for its input
TaskUpstream ==
    [knowledge_task |-> "none",
     schema_linking_task |-> "knowledge_task",
     sql_generation_task |-> "schema_linking_task",
     sql_execution_task |-> "sql_generation_task"]

\* the value a task receives from the task its parameters name
UpstreamOutput(task) ==
    IF TaskUpstream[task] = "none" THEN NoneVal ELSE taskOut[TaskUpstream[task]]

\* texts the reasoning capability can answer the schema linking task with:
\* the JSON asked for, or prose
LINKS_JSON == "{linked_tables: [films], linked_columns: [title, year]}"
LINKS_PROSE == "The films table looks relevant."
LinkOutputs == {LINKS_JSON, LINKS_PROSE}

\* texts the reasoning capability can answer the SQL generation task with
GenOutputs == {Q_TITLE, Q_MISSING, Q_EMPTY}

\* the text of a task output, str(None) when the task has not run
TextOf(o) == IF "text" \in DOMAIN o THEN o.text ELSE "None"

\* tools[0].func(question=..., db_id=..., reasoning_type=...)
ToolFunc(name, q, db, rt) ==
    IF name = "schema_info_tool" THEN SchemaInfoTool_run(q, db, rt) ELSE NoneVal

NoTasks == [t \in TaskNames |-> NoneVal]

\* the locals of SQLExecutionTool.run are gone once the caller has its value
RunLeave ==
    /\ runPc' = "none"
    /\ caller' = "none"
    /\ sql_query' = ""
    /\ db_id' = ""
    /\ cursor' = NoCursor
    /\ results' = <<>>
    /\ columns' = <<>>
    /\ caught' = NoneVal
    /\ connected' = FALSE
    /\ executed' = FALSE
    /\ retval' = NoneVal
    /\ UNCHANGED <<openConns, stdout>>

(* ------------------------------- Init ---------------------------------- *)

Init ==
    /\ db_map \in {BuildDbMap(l) : l \in Listings}
    /\ schema_info = SchemaCatalog
    /\ runs = 0
    /\ pc = "idle"
    /\ sample = NoneVal
    /\ question = ""
    /\ selected_db = ""
    /\ reasoning_type = ""
    /\ taskIdx = 1
    /\ taskIn = NoTasks
    /\ taskOut = NoTasks
    /\ started = <<>>
    /\ finished = <<>>
    /\ result = NoneVal
    /\ exception = "none"
    /\ shown = {}
    /\ vanilla_sql_res = NoneVal
    /\ vanilla_exec_res = NoneVal
    /\ runPc = "none"
    /\ caller = "none"
    /\ sql_query = ""
    /\ db_id = ""
    /\ cursor = NoCursor
    /\ results = <<>>
    /\ columns = <<>>
    /\ caught = NoneVal
    /\ connected = FALSE
    /\ executed = FALSE
    /\ openConns = 0
    /\ retval = NoneVal
    /\ stdout = <<>>

(* ------------------- the "Pick Random Question" handler ---------------- *)

\* the button is pressed: the script runs from the top of the handler
PickRandomQuestion ==
    /\ pc \in {"idle", "done", "crashed"}
    /\ runs < MaxRuns
    /\ runs' = runs + 1
    /\ \E s \in dev_data :
         /\ sample' = s
         /\ question' = s.question
         /\ selected_db' = s.db_id
         /\ reasoning_type' = Get(s, "reasoning_type", "- - -")
    /\ shown' = {"question"}
    /\ pc' = "kickoff"
    /\ taskIdx' = 1
    /\ taskIn' = NoTasks
    /\ taskOut' = NoTasks
    /\ started' = <<>>
    /\ finished' = <<>>
    /\ result' = NoneVal
    /\ exception' = "none"
    /\ vanilla_sql_res' = NoneVal
    /\ vanilla_exec_res' = NoneVal
    /\ UNCHANGED <<db_map, schema_info, toolVars>>

\* kickoff is at a task the crew still has to run
AtTask(task) ==
    /\ pc = "kickoff"
    /\ runPc = "none"
    /\ taskIdx <= Len(crew_tasks)
    /\ crew_tasks[taskIdx] = task

\* a task that runs in one step: it starts, gets its input, yields out
RunTask(task, out) ==
    /\ started' = Append(started, task)
    /\ finished' = Append(finished, task)
    /\ taskIn' = [taskIn EXCEPT ![task] = UpstreamOutput(task)]
    /\ taskOut' = [taskOut EXCEPT ![task] = out]
    /\ taskIdx' = taskIdx + 1
    /\ UNCHANGED <<runs, pc, sample, question, selected_db, reasoning_type,
                   result, exception, shown, vanilla_sql_res, vanilla_exec_res>>
    /\ UNCHANGED <<db_map, schema_info, toolVars>>

\* knowledge_task: the agent calls schema_info_tool
KnowledgeTask ==
    /\ AtTask("knowledge_task")
    /\ RunTask("knowledge_task",
               ToolFunc(knowledge_agent_tools[1], question, selected_db,
                        reasoning_type))

\* schema_linking_task: the agent's answer is passed on as it is
SchemaLinkingTask ==
    /\ AtTask("schema_linking_task")
    /\ \E text \in LinkOutputs :
         RunTask("schema_linking_task", [text |-> text])

\* sql_generation_task: the agent's answer is passed on as it is
SqlGenerationTask ==
    /\ AtTask("sql_generation_task")
    /\ \E text \in GenOutputs :
         RunTask("sql_generation_task", [text |-> text])

\* sql_execution_task: the agent calls sql_execution_tool on the generated
\* query and the run's db_id
SqlExecutionTask ==
    /\ AtTask("sql_execution_task")
    /\ started' = Append(started, "sql_execution_task")
    /\ taskIn' = [taskIn EXCEPT !["sql_execution_task"] =
                     UpstreamOutput("sql_execution_task")]
    /\ RunEnter("crew", TextOf(UpstreamOutput("sql_execution_task")), selected_db)
    /\ UNCHANGED <<runs, pc, sample, question, selected_db, reasoning_type,
                   taskIdx, taskOut, finished, result, exception, shown,
                   vanilla_sql_res, vanilla_exec_res>>
    /\ UNCHANGED <<db_map, schema_info>>

\* SQLExecutionTool.run hands its value to its caller: the execution task,
\* or the vanilla block, which writes it to the page
SqlExecutionReturn ==
    /\ runPc = "returned"
    /\ IF caller = "crew"
       THEN /\ taskOut' = [taskOut EXCEPT !["sql_execution_task"] = retval]
            /\ finished' = Append(finished, "sql_execution_task")
            /\ taskIdx' = taskIdx + 1
            /\ UNCHANGED <<pc, shown, vanilla_exec_res>>
       ELSE /\ vanilla_exec_res' = retval
            /\ shown' = shown \cup {"vanilla_exec"}
            /\ pc' = "done"
            /\ UNCHANGED <<taskOut, finished, taskIdx>>
    /\ RunLeave
    /\ UNCHANGED <<runs, sample, question, selected_db, reasoning_type, taskIn,
                   started, result, exception, vanilla_sql_res>>
    /\ UNCHANGED <<db_map, schema_info>>

\* a call of the reasoning capability raises; nothing between the agent and
\* the handler catches it, so the script ends there
ReasoningRaises ==
    /\ pc = "kickoff"
    /\ runPc = "none"
    /\ taskIdx <= Len(crew_tasks)
    /\ pc' = "crashed"
    /\ exception' = "ReasoningError"
    /\ UNCHANGED <<runs, sample, question, selected_db, reasoning_type, taskIdx,
                   taskIn, taskOut, started, finished, result, shown,
                   vanilla_sql_res, vanilla_exec_res>>
    /\ UNCHANGED <<db_map, schema_info, toolVars>>

\* result = crew.kickoff(...): the output of the last task
KickoffReturn ==
    /\ pc = "kickoff"
    /\ runPc = "none"
    /\ taskIdx = Len(crew_tasks) + 1
    /\ result' = taskOut[crew_tasks[Len(crew_tasks)]]
    /\ pc' = "display"
    /\ UNCHANGED <<runs, sample, question, selected_db, reasoning_type, taskIdx,
                   taskIn, taskOut, started, finished, exception, shown,
                   vanilla_sql_res, vanilla_exec_res>>
    /\ UNCHANGED <<db_map, schema_info, toolVars>>

\* "Final Agentic Result", and "Intermediate Steps" if the result has steps
DisplayResult ==
    /\ pc = "display"
    /\ shown' = shown \cup {"final"}
                      \cup (IF "steps" \in DOMAIN result THEN {"steps"} ELSE {})
    /\ pc' = "vanilla"
    /\ UNCHANGED <<runs, sample, question, selected_db, reasoning_type, taskIdx,
                   taskIn, taskOut, started, finished, result, exception,
                   vanilla_sql_res, vanilla_exec_res>>
    /\ UNCHANGED <<db_map, schema_info, toolVars>>

\* vanilla_sql_res = sql_generation_agent.tools[0].func(...)
\*                   if sql_generation_agent.tools else {}
VanillaGeneration ==
    /\ pc = "vanilla"
    /\ vanilla_sql_res' =
          IF sql_generation_agent_tools # <<>>
          THEN ToolFunc(sql_generation_agent_tools[1], question, selected_db,
                        reasoning_type)
          ELSE EmptyDict
    /\ shown' = shown \cup {"vanilla"}
    /\ pc' = "vanilla_exec"
    /\ UNCHANGED <<runs, sample, question, selected_db, reasoning_type, taskIdx,
                   taskIn, taskOut, started, finished, result, exception,
                   vanilla_exec_res>>
    /\ UNCHANGED <<db_map, schema_info, toolVars>>

\* if "sql_query" in vanilla_sql_res: run it with sql_execution_tool
\* else: write that no baseline is available
VanillaExecution ==
    /\ pc = "vanilla_exec"
    /\ runPc = "none"
    /\ IF "sql_query" \in DOMAIN vanilla_sql_res
       THEN /\ RunEnter("vanilla", vanilla_sql_res.sql_query, selected_db)
            /\ pc' = "vanilla_run"
            /\ UNCHANGED shown
       ELSE /\ shown' = shown \cup {"vanilla_none"}
            /\ pc' = "done"
            /\ UNCHANGED toolVars
    /\ UNCHANGED <<runs, sample, question, selected_db, reasoning_type, taskIdx,
                   taskIn, taskOut, started, finished, result, exception,
                   vanilla_sql_res, vanilla_exec_res>>
    /\ UNCHANGED <<db_map, schema_info>>

(* ------------------------------- Next ---------------------------------- *)

Next ==
    \/ PickRandomQuestion
    \/ KnowledgeTask
    \/ SchemaLinkingTask
    \/ SqlGenerationTask
    \/ SqlExecutionTask
    \/ RunCheckDb
    \/ RunConnect
    \/ RunExecute
    \/ RunFetchall
    \/ RunDescription
    \/ RunExcept
    \/ RunFinally
    \/ RunReturn
    \/ SqlExecutionReturn
    \/ ReasoningRaises
    \/ KickoffReturn
    \/ DisplayResult
    \/ VanillaGeneration
    \/ VanillaExecution

Spec == Init /\ [][Next]_vars

(* ------------------------------ claims --------------------------------- *)

\* s is an initial segment of t
IsPrefix(s, t) == Len(s) <= Len(t) /\ \A i \in 1..Len(s) : s[i] = t[i]

Range(s) == {s[i] : i \in 1..Len(s)}

\* a call of SQLExecutionTool.run is in progress or has just returned
InCall == runPc # "none"

\* the call has returned and its value is not yet consumed by the caller
Returned == runPc = "returned"

\* the try block of the call raised
QueryFailed == caught # NoneVal

\* C1: a call of SQLExecutionTool.run whose db_id is not a key of db_map
\* never gets past the lookup: it opens no connection, executes no query,
\* does not end the script with an exception, and the value it returns
\* carries an error entry (with the sql_query and db_id it was given).
C1_UnknownDbReturnsError ==
    (InCall /\ db_id \notin DOMAIN db_map) =>
        /\ runPc \in {"check", "returned"}
        /\ ~connected
        /\ ~executed
        /\ pc # "crashed"
        /\ exception = "none"
        /\ Returned =>
              /\ "error" \in DOMAIN retval
              /\ retval.error = "No database found for db_id=" \o selected_db
              /\ retval.db_id = selected_db

C1_Witness ==
    /\ Returned
    /\ db_id = "missing_db"
    /\ sql_query = Q_TITLE
    /\ "error" \in DOMAIN retval

\* C2: for a registered db_id, a call whose query failed returns a value
\* with a non-empty error, columns = [] and rows = [].
C2_FailureHasError ==
    (Returned /\ db_id \in DOMAIN db_map /\ QueryFailed) =>
        /\ "error" \in DOMAIN retval
        /\ retval.error # ""
        /\ Get(retval, "columns", <<>>) = <<>>
        /\ Get(retval, "rows", <<>>) = <<>>

\* C3: a connection is open exactly while a call is between its connect and
\* its finally clause; outside that window (before the lookup, after the
\* return on any path, between calls) no connection is open.
C3_ConnectionClosedOnEveryPath ==
    /\ openConns \in {0, 1}
    /\ openConns = 1 <=>
          runPc \in {"execute", "fetchall", "description", "except", "finally"}

C3_Witness ==
    /\ Returned
    /\ connected
    /\ QueryFailed
    /\ cursor.ok
    /\ openConns = 0
    /\ runs >= 2

\* C4: when the full path ends with a fatal error the baseline path is
\* still run to completion, and the baseline never runs before the full
\* path's result has been written.
C4_PathsIndependent ==
    /\ (pc = "crashed" /\ exception = "ReasoningError") =>
          ("vanilla" \in shown /\ shown \cap {"vanilla_exec", "vanilla_none"} # {})
    /\ "vanilla" \in shown => "final" \in shown

\* C5: a handler run in which no stage failed ends with a full-path result
\* and a baseline execution result for the same db_id.
C5_BothResults ==
    pc = "done" =>
        /\ result # NoneVal
        /\ vanilla_exec_res # NoneVal
        /\ "db_id" \in DOMAIN vanilla_exec_res
        /\ vanilla_exec_res.db_id = selected_db

\* the reasoning capability broke its contract in this kickoff: prose
\* instead of the linking JSON, or no text for the SQL query
ContractViolated ==
    \/ /\ taskOut["schema_linking_task"] # NoneVal
       /\ taskOut["schema_linking_task"].text # LINKS_JSON
    \/ /\ taskOut["sql_generation_task"] # NoneVal
       /\ taskOut["sql_generation_task"].text = ""

\* C6: once the reasoning capability has broken its contract, the SQL
\* execution stage is not started on that path.
C6_ContractViolationStopsPath ==
    ContractViolated => "sql_execution_task" \notin Range(started)

\* the order of the four stages
StageOrder ==
    <<"knowledge_task", "schema_linking_task", "sql_generation_task",
      "sql_execution_task">>

\* C7: the stages of a kickoff start in the order retrieval, linking,
\* generation, execution; a stage starts only when every earlier one has
\* finished; and each stage was given the output of the one before it
\* (the execution call runs the generated text on the run's db_id).
C7_StagesSequential ==
    /\ IsPrefix(started, StageOrder)
    /\ IsPrefix(finished, started)
    /\ Len(started) - Len(finished) \in {0, 1}
    /\ Len(started) > Len(finished) <=> (InCall /\ caller = "crew")
    /\ \A i \in 2..Len(started) :
          /\ taskOut[StageOrder[i-1]] # NoneVal
          /\ taskIn[StageOrder[i]] = taskOut[StageOrder[i-1]]
    /\ (InCall /\ caller = "crew") =>
          /\ sql_query = taskOut["sql_generation_task"].text
          /\ db_id = selected_db

C7_Witness ==
    /\ pc = "display"
    /\ finished = StageOrder
    /\ "rows" \in DOMAIN result
    /\ result.rows = << <<"Arrival">> >>
    /\ taskIn["schema_linking_task"].schema_info = SchemaCatalog["film_db"]

C9_SchemaRetrievalPure ==
    /\ schema_info = SchemaCatalog
    /\ "knowledge_task" \in Range(finished) =>
          LET out == taskOut["knowledge_task"]
          IN  /\ DOMAIN out = {"schema_info", "db_id", "reasoning_type", "question"}
              /\ out.question = sample.question
              /\ out.db_id = sample.db_id
              /\ out.reasoning_type =
                    (IF "reasoning_type" \in DOMAIN sample
                     THEN sample.reasoning_type ELSE "- - -")
              /\ sample.db_id \in DOMAIN SchemaCatalog =>
                    out.schema_info = SchemaCatalog[sample.db_id]
              /\ sample.db_id \notin DOMAIN SchemaCatalog =>
                    out.schema_info = EmptyDict

C9_Witness ==
    /\ "knowledge_task" \in Range(finished)
    /\ selected_db = "missing_db"
    /\ taskOut["knowledge_task"].schema_info = EmptyDict
    /\ runs >= 2

\* C10: a returned value is the success variant (columns and rows, no
\* error) exactly when the query executed, and the error variant (error, no
\* columns or rows) exactly when the call failed.
C10_ExactlyOneVariant ==
    Returned =>
        LET hasError == "error" \in DOMAIN retval
            hasData == "columns" \in DOMAIN retval \/ "rows" \in DOMAIN retval
            failed == db_id \notin DOMAIN db_map \/ QueryFailed
        IN  /\ ~(hasError /\ hasData)
            /\ failed => (hasError /\ ~hasData)
            /\ ~failed => (hasData /\ ~hasError)

====
